---------------------------- MODULE Spec2Model ----------------------------
(***************************************************************************)
(* Program-request lifecycle of the Unified Student Activities backend     *)
(* (src/main.py, src/schemas.py).                                          *)
(*                                                                         *)
(* The state is the content of the MongoDB collections the lifecycle       *)
(* handlers write (programrequest, approval, event, report, evaluation),   *)
(* the approve_request calls that are between their two store writes, and  *)
(* the last HTTP response.  Collections are named by the lowercase literals *)
(* every call site passes to coll().  Handlers are FastAPI "def" endpoints: they run *)
(* on a thread pool, so calls interleave at their store operations.  Every *)
(* handler but approve_request performs one store write and is one action; *)
(* approve_request performs two (insert_one, then update_one) and is two.  *)
(*                                                                         *)
(* Documents keep the fields the handlers or the schema validators read    *)
(* (ids, references, status, decision, budget amounts); free-text fields   *)
(* (titles, notes, summaries, ...) are stored verbatim by the code and are *)
(* left out.  The reference-data, resource and notification endpoints      *)
(* write collections of their own and the list endpoints only read.        *)
(***************************************************************************)
EXTENDS Integers, Sequences, FiniteSets, TLC

VARIABLES
    db,              \* TRUE iff the module-level database handle is not None
    programrequest,  \* collection "programrequest": sequence of documents
    approval,        \* collection "approval"
    event,           \* collection "event"
    report,          \* collection "report"
    evaluation,      \* collection "evaluation"
    calls,           \* calls[i]: the approve_request call that inserted approval[i]
    response         \* the last HTTP response sent

vars == <<db, programrequest, approval, event, report, evaluation, calls, response>>

\* Most documents the store holds in a behaviour of the model.
MaxDocs == 3

--------------------------------------------------------------------------
(* Identifiers.  An id is a pair <<kind, n>>: <<c, n>> with c a collection *)
(* name is the ObjectId the store generated for the n-th document of c;    *)
(* Unassigned is a well-formed ObjectId string the store never generated;  *)
(* Malformed is a string that is not an ObjectId; None is Python's None.   *)

None == <<"None", 0>>
Unassigned == <<"oid", 0>>
Malformed == <<"str", 0>>

OID(collection, n) == <<collection, n>>

\* bson.ObjectId(s) raises InvalidId unless s is a 24-digit hex string.
IsObjectId(id) == id[1] \notin {"str", "None"}

Ids(collection) == {collection[i]._id : i \in DOMAIN collection}

DocCount ==
    Len(programrequest) + Len(approval) + Len(event) + Len(report) + Len(evaluation)

--------------------------------------------------------------------------
(* Schemas (src/schemas.py): what pydantic accepts. *)

RequestStatus == {"submitted", "under_review", "approved", "rejected"}
Decision == {"approved", "rejected"}

\* BudgetItem.amount: float = Field(ge=0)
BudgetItemValidNoBound(amount) == TRUE
BudgetItemValid(amount) == amount >= 0

\* ProgramRequest: budget is a list of BudgetItem, status one of the literals
\* ("absent" is a payload without the key, which takes the default).  The
\* result is the set of fields the 422 response reports as invalid.
ProgramRequestErrors(payload) ==
    {f \in {"budget"} : \E k \in DOMAIN payload.budget : ~BudgetItemValid(payload.budget[k])}
    \cup {f \in {"status"} : payload.status \notin RequestStatus \cup {"absent"}}

\* The validated model: status defaults to "submitted".
ProgramRequestModel(payload) ==
    [budget |-> payload.budget,
     status |-> IF payload.status = "absent" THEN "submitted" ELSE payload.status]

\* Approval: decision is one of the literals (request_id is any str).
ApprovalErrors(payload) == {f \in {"decision"} : payload.decision \notin Decision}

--------------------------------------------------------------------------
(* The document store. *)

\* create_document(collection_name, data): insert_one, returns the new id.
InsertOne(collection, name, doc) ==
    Append(collection, doc @@ [_id |-> OID(name, Len(collection) + 1)])

\* update_one({"_id": id}, {"$set": {"status": status}})
UpdateEvery(collection, id, status) ==
    [i \in DOMAIN collection |-> [collection[i] EXCEPT !.status = status]]
UpdateOne(collection, id, status) ==
    [i \in DOMAIN collection |->
        IF collection[i]._id = id
        THEN [collection[i] EXCEPT !.status = status]
        ELSE collection[i]]

\* "approved" if payload.decision == "approved" else "rejected"
TargetAlwaysApproved(decision) == "approved"
TargetStatus(decision) == IF decision = "approved" THEN "approved" ELSE "rejected"

\* The status of the request with this id, as find_one would read it.
StatusIn(collection, id) ==
    IF id \in Ids(collection)
    THEN (CHOOSE d \in {collection[i] : i \in DOMAIN collection} : d._id = id).status
    ELSE "missing"

\* An HTTP response: the status code, the "id" and "status" keys of the body
\* (None, "" when absent) and the fields a 422 body reports.
Reply(op, code, id, status, detail) ==
    [op |-> op, code |-> code, id |-> id, status |-> status, detail |-> detail]

--------------------------------------------------------------------------
(* Inputs. *)

Budgets == {<<>>, <<100>>, <<100, -50>>}

ProgramRequestPayloads ==
    [budget : Budgets, status : RequestStatus \cup {"absent"}]

ApprovalPayloads ==
    [request_id : Ids(programrequest) \cup {Unassigned, Malformed},
     decision : Decision \cup {"pending"}]

EventPayloads == [request_id : Ids(programrequest) \cup {None, Unassigned}]

ReportPayloads ==
    [request_id : Ids(programrequest) \cup {None}, event_id : Ids(event) \cup {None}]

--------------------------------------------------------------------------
Init ==
    /\ db \in BOOLEAN
    /\ programrequest = <<>>
    /\ approval = <<>>
    /\ event = <<>>
    /\ report = <<>>
    /\ evaluation = <<>>
    /\ calls = <<>>
    /\ response = Reply("none", 0, None, "", {})

\* Each handler below is entered after FastAPI has validated the body against
\* its schema (422 otherwise); with no database handle create_document raises
\* and the call answers 500 having written nothing.

\* POST /program-requests
submit_program_request(payload) ==
    /\ IF ProgramRequestErrors(payload) # {}
       THEN /\ response' = Reply("submit_program_request", 422, None, "",
                                 ProgramRequestErrors(payload))
            /\ UNCHANGED programrequest
       ELSE IF ~db
       THEN /\ response' = Reply("submit_program_request", 500, None, "", {})
            /\ UNCHANGED programrequest
       ELSE /\ DocCount < MaxDocs
            /\ programrequest' =
                   InsertOne(programrequest, "programrequest", ProgramRequestModel(payload))
            /\ response' = Reply("submit_program_request", 200,
                                 OID("programrequest", Len(programrequest) + 1),
                                 ProgramRequestModel(payload).status, {})
    /\ UNCHANGED <<db, approval, event, report, evaluation, calls>>

\* POST /approvals, up to and including "store approval".  The call's record
\* keeps where it stands (pc), the status code it returned (0 until then) and
\* two observations made on entry that no handler reads: the request's status
\* then (prior) and the calls in flight then (peers).
approve_request(payload) ==
    /\ IF ApprovalErrors(payload) # {}
       THEN /\ response' = Reply("approve_request", 422, None, "", ApprovalErrors(payload))
            /\ UNCHANGED <<approval, calls>>
       ELSE IF ~db
       THEN /\ response' = Reply("approve_request", 500, None, "", {})
            /\ UNCHANGED <<approval, calls>>
       ELSE /\ DocCount < MaxDocs
            /\ approval' = InsertOne(approval, "approval",
                               [request_id |-> payload.request_id,
                                decision |-> payload.decision])
            /\ calls' = Append(calls,
                               [pc |-> "update", code |-> 0,
                                prior |-> StatusIn(programrequest, payload.request_id),
                                peers |-> {j \in DOMAIN calls : calls[j].pc = "update"}])
            /\ UNCHANGED response
    /\ UNCHANGED <<db, programrequest, event, report, evaluation>>

\* POST /approvals, "update request status" and the return, of the call that
\* inserted approval[i].
approve_request_update(i) ==
    /\ i \in DOMAIN calls
    /\ calls[i].pc = "update"
    /\ IF ~IsObjectId(approval[i].request_id)
       THEN /\ calls' = [calls EXCEPT ![i].pc = "done", ![i].code = 500]
            /\ response' = Reply("approve_request", 500, None, "", {})
            /\ UNCHANGED programrequest
       ELSE /\ programrequest' = UpdateOne(programrequest, approval[i].request_id,
                                           TargetStatus(approval[i].decision))
            /\ calls' = [calls EXCEPT ![i].pc = "done", ![i].code = 200]
            /\ response' = Reply("approve_request", 200, approval[i]._id, "", {})
    /\ UNCHANGED <<db, approval, event, report, evaluation>>

\* POST /events
create_event(payload) ==
    /\ IF ~db
       THEN /\ response' = Reply("create_event", 500, None, "", {})
            /\ UNCHANGED event
       ELSE /\ DocCount < MaxDocs
            /\ event' = InsertOne(event, "event", payload)
            /\ response' = Reply("create_event", 200, OID("event", Len(event) + 1), "", {})
    /\ UNCHANGED <<db, programrequest, approval, report, evaluation, calls>>

\* POST /reports
submit_report(payload) ==
    /\ IF ~db
       THEN /\ response' = Reply("submit_report", 500, None, "", {})
            /\ UNCHANGED report
       ELSE /\ DocCount < MaxDocs
            /\ report' = InsertOne(report, "report", payload)
            /\ response' = Reply("submit_report", 200, OID("report", Len(report) + 1), "", {})
    /\ UNCHANGED <<db, programrequest, approval, event, evaluation, calls>>

\* POST /evaluations
submit_evaluation(payload) ==
    /\ IF ~db
       THEN /\ response' = Reply("submit_evaluation", 500, None, "", {})
            /\ UNCHANGED evaluation
       ELSE /\ DocCount < MaxDocs
            /\ evaluation' = InsertOne(evaluation, "evaluation", payload)
            /\ response' = Reply("submit_evaluation", 200,
                                 OID("evaluation", Len(evaluation) + 1), "", {})
    /\ UNCHANGED <<db, programrequest, approval, event, report, calls>>

SubmitRequest == \E payload \in ProgramRequestPayloads : submit_program_request(payload)
RecordApproval == \E payload \in ApprovalPayloads : approve_request(payload)
RecordApprovalUpdate == \E i \in DOMAIN calls : approve_request_update(i)
ScheduleEvent == \E payload \in EventPayloads : create_event(payload)
SubmitReport == \E payload \in ReportPayloads : submit_report(payload)
SubmitEvaluation == \E payload \in ReportPayloads : submit_evaluation(payload)

Next ==
    \/ SubmitRequest
    \/ RecordApproval
    \/ RecordApprovalUpdate
    \/ ScheduleEvent
    \/ SubmitReport
    \/ SubmitEvaluation

Spec == Init /\ [][Next]_vars

--------------------------------------------------------------------------
(* Properties of the lifecycle. *)

Terminal == {"approved", "rejected"}

\* The call that inserted approval[i] returns in this step.
Returns(i) == i \in DOMAIN calls /\ calls[i].pc = "update" /\ calls'[i].pc = "done"

ApprovalsFor(id) == {i \in DOMAIN approval : approval[i].request_id = id}

\* C1: when an approve_request call on an existing request returns
\* successfully, the request's status read from the store is "approved" for
\* decision "approved" and "rejected" for decision "rejected".
C1_ApprovalSetsStatus ==
    [][\A i \in DOMAIN calls :
          (Returns(i) /\ calls'[i].code = 200
              /\ approval[i].request_id \in Ids(programrequest))
          => StatusIn(programrequest', approval[i].request_id) = approval[i].decision]_vars

\* A submitted request that a returned call has rejected.
C1_Witness ==
    \E i \in DOMAIN calls :
        /\ calls[i].pc = "done" /\ calls[i].code = 200
        /\ calls[i].prior = "submitted"
        /\ approval[i].decision = "rejected"
        /\ StatusIn(programrequest, approval[i].request_id) = "rejected"

\* C2: "approved" and "rejected" are terminal: a call on a request in one of
\* them fails with InvalidTransition (409) and no step changes that status.
C2_TerminalStatus ==
    [][/\ \A k \in DOMAIN programrequest :
             programrequest[k].status \in Terminal
             => programrequest'[k].status = programrequest[k].status
       /\ \A i \in DOMAIN calls :
             (Returns(i) /\ StatusIn(programrequest, approval[i].request_id) \in Terminal)
             => calls'[i].code = 409]_vars

\* C3: of two calls with opposite decisions that were in flight together on
\* one submitted request, once both have returned exactly one has succeeded,
\* the other has failed with InvalidTransition (409), the request has exactly
\* one Approval record, and its status is the decision of the one that
\* succeeded.
C3_OneWinner ==
    \A i, j \in DOMAIN calls :
        (/\ i \in calls[j].peers
         /\ approval[i].request_id = approval[j].request_id
         /\ approval[i].decision # approval[j].decision
         /\ calls[i].prior = "submitted" /\ calls[j].prior = "submitted"
         /\ calls[i].pc = "done" /\ calls[j].pc = "done")
        => \E w \in {i, j} : \E l \in {i, j} \ {w} :
              /\ calls[w].code = 200 /\ calls[l].code = 409
              /\ StatusIn(programrequest, approval[w].request_id) = approval[w].decision
              /\ Cardinality(ApprovalsFor(approval[w].request_id)) = 1

\* C4: an Approval record is never visible while its request still has the
\* status from before the decision, and none stays stored when its call
\* failed to update the status.
C4_AtomicApproval ==
    \A i \in DOMAIN approval :
        /\ (calls[i].pc = "update" /\ approval[i].request_id \in Ids(programrequest))
           => StatusIn(programrequest, approval[i].request_id) = approval[i].decision
        /\ ~(calls[i].pc = "done" /\ calls[i].code # 200)

\* C5: a call whose request_id identifies no stored request fails with
\* NotFound (404), and every stored Approval references a stored request.
C5_ApprovalNeedsRequest ==
    /\ \A i \in DOMAIN approval : approval[i].request_id \in Ids(programrequest)
    /\ \A i \in DOMAIN calls :
          (calls[i].pc = "done" /\ calls[i].prior = "missing") => calls[i].code = 404

\* C6: a request that submit_program_request creates is stored with status
\* "submitted", and "submitted" is the status returned, whatever status the
\* payload carries.
C6_CreatedSubmitted ==
    [][Len(programrequest') > Len(programrequest)
       => /\ programrequest'[Len(programrequest')].status = "submitted"
          /\ response'.status = "submitted"]_vars

\* C7: create_event with a request_id persists an Event only if the request
\* exists and is approved; otherwise it answers NotFound (404) for an unknown
\* request, PreconditionFailed (412) for one not approved, and stores nothing.
C7_EventNeedsApproved ==
    [][\A payload \in EventPayloads :
          (db /\ payload.request_id # None /\ create_event(payload))
          => LET st == StatusIn(programrequest, payload.request_id) IN
             /\ st = "missing" => (response'.code = 404 /\ event' = event)
             /\ st \in RequestStatus \ {"approved"} =>
                   (response'.code = 412 /\ event' = event)]_vars

\* The event a report or evaluation payload names has another request's id.
Inconsistent(payload) ==
    /\ payload.request_id # None
    /\ \E e \in DOMAIN event :
          /\ event[e]._id = payload.event_id
          /\ event[e].request_id \notin {None, payload.request_id}

\* C8: submit_report and submit_evaluation answer InconsistentReference (409)
\* and store nothing when the event named has a request_id other than the one
\* supplied, so every stored Report and Evaluation with both references names
\* an Event whose request_id is null or the record's own.
C8_ConsistentReferences ==
    [][/\ \A payload \in ReportPayloads :
             (db /\ Inconsistent(payload)
                 /\ (submit_report(payload) \/ submit_evaluation(payload)))
             => (response'.code = 409 /\ report' = report /\ evaluation' = evaluation)
       /\ \A k \in DOMAIN report' : ~Inconsistent(report'[k])
       /\ \A k \in DOMAIN evaluation' : ~Inconsistent(evaluation'[k])]_vars

\* s is t with documents appended.
Extends(s, t) == Len(s) >= Len(t) /\ \A k \in DOMAIN t : s[k] = t[k]

\* C9: history is append-only.  No step changes or removes an Approval or
\* removes a ProgramRequest; of a stored request only the status changes,
\* only in the step where an approve_request call for that request's id
\* updates it, and that step changes nothing else in the store; the step that
\* stores the call's Approval appends that one record and nothing else.
C9_AppendOnly ==
    [][/\ Extends(approval', approval)
       /\ Len(programrequest') >= Len(programrequest)
       /\ \A k \in DOMAIN programrequest :
             /\ programrequest'[k]._id = programrequest[k]._id
             /\ programrequest'[k].budget = programrequest[k].budget
             /\ programrequest'[k].status # programrequest[k].status
                => /\ \E i \in DOMAIN calls :
                         Returns(i) /\ approval[i].request_id = programrequest[k]._id
                   /\ \A m \in DOMAIN programrequest' :
                         m # k => (m \in DOMAIN programrequest
                                      /\ programrequest'[m] = programrequest[m])
                   /\ UNCHANGED <<approval, event, report, evaluation>>
       /\ Len(calls') > Len(calls)
          => /\ Len(approval') = Len(approval) + 1
             /\ UNCHANGED <<programrequest, event, report, evaluation>>]_vars

\* Two stored requests, one of which a returned call has moved out of
\* "submitted" while the other still has the status it was created with.
C9_Witness ==
    /\ Len(programrequest) = 2
    /\ \E i \in DOMAIN calls :
          /\ calls[i].pc = "done" /\ calls[i].code = 200
          /\ calls[i].prior = "submitted"
          /\ StatusIn(programrequest, approval[i].request_id) = approval[i].decision
          /\ \E k \in DOMAIN programrequest :
                /\ programrequest[k]._id # approval[i].request_id
                /\ programrequest[k].status \notin Terminal

\* C10: submit_program_request with a negative budget amount answers a
\* validation error (422) naming the budget and leaves the programrequest
\* collection unchanged, and every stored request has only amounts >= 0.
C10_NegativeBudgetRejected ==
    [][/\ response'.op = "submit_program_request"
          => \A payload \in ProgramRequestPayloads :
                ((\E k \in DOMAIN payload.budget : payload.budget[k] < 0)
                    /\ submit_program_request(payload))
                => /\ response'.code = 422 /\ "budget" \in response'.detail
                   /\ programrequest' = programrequest
       /\ \A i \in DOMAIN programrequest' : \A k \in DOMAIN programrequest'[i].budget :
             programrequest'[i].budget[k] >= 0]_vars

\* A request is stored and the last submission was refused for its budget.
C10_Witness ==
    /\ Len(programrequest) > 0
    /\ response.op = "submit_program_request"
    /\ response.code = 422
    /\ "budget" \in response.detail

==========================================================================
